---- MODULE Spec2Model ----
(***************************************************************************)
(* cuopt_json_to_c_api.c as a state machine: main reads a cuOpt JSON       *)
(* document, parse_cuopt_json fills a ProblemData descriptor from it,      *)
(* solve_problem hands the descriptor to the cuOpt C API, and              *)
(* free_problem_data releases it.                                          *)
(***************************************************************************)
EXTENDS Integers, Sequences, FiniteSets, TLC

VARIABLES pc, env, json, data, parse_ret, overrun, heap, handed, problem, settings,
          solution, status, calls, destroys, exit_code

vars == <<pc, env, json, data, parse_ret, overrun, heap, handed, problem, settings,
          solution, status, calls, destroys, exit_code>>

(***************************************************************************)
(* Bounds of the model.                                                    *)
(***************************************************************************)
\* largest number of constraints of a modelled document (offsets has one more element)
MaxRows == 2
\* largest number of variables of a modelled document
MaxVars == 2
\* largest number of non-zeros of a modelled document
MaxNnz == 4

(***************************************************************************)
(* cuopt_float_t values.  A finite double is modelled by an integer; the   *)
(* two infinities and NaN are values of their own.  Indet is the content   *)
(* of a slot that malloc returned and nothing has assigned: whoever reads  *)
(* it may see any value.                                                   *)
(***************************************************************************)
Fin(n) == [k |-> "fin", v |-> n]
PosInf == [k |-> "inf", v |-> 1]
NegInf == [k |-> "inf", v |-> -1]
NaN == [k |-> "nan", v |-> 0]
Indet == [k |-> "indet", v |-> 0]

\* CUOPT_INFINITY is <math.h>'s INFINITY, the IEEE +infinity that strtod also returns
CUOPT_INFINITY == PosInf

\* unary minus on a double
Negate(x) == IF x.k \in {"fin", "inf"} THEN [k |-> x.k, v |-> 0 - x.v] ELSE x

\* a <= b on doubles: false when either is NaN; not guaranteed for an indeterminate slot
FloatLe(a, b) ==
    /\ a.k \in {"fin", "inf"}
    /\ b.k \in {"fin", "inf"}
    /\ \/ (a.k = "inf" /\ a.v = -1)
       \/ (b.k = "inf" /\ b.v = 1)
       \/ (a.k = "fin" /\ b.k = "fin" /\ a.v <= b.v)
       \/ a = b

(***************************************************************************)
(* C strings are sequences of one-character strings.                       *)
(***************************************************************************)
S_inf == <<"i", "n", "f">>
S_infinity == <<"i", "n", "f", "i", "n", "i", "t", "y">>
S_minus_inf == <<"-", "i", "n", "f">>
S_minus_infinity == <<"-", "i", "n", "f", "i", "n", "i", "t", "y">>
S_ninf == <<"n", "i", "n", "f">>
S_nan == <<"n", "a", "n">>

Digits == <<"0", "1", "2", "3", "4", "5", "6", "7", "8", "9">>
IsDigit(c) == \E i \in 1..10 : Digits[i] = c
DigitVal(c) == (CHOOSE i \in 1..10 : Digits[i] = c) - 1

\* tolower on the letters the modelled strings use
ToLower(c) ==
    CASE c = "I" -> "i" [] c = "N" -> "n" [] c = "F" -> "f" [] c = "T" -> "t"
      [] c = "Y" -> "y" [] c = "A" -> "a" [] OTHER -> c

\* strncasecmp(s, p, strlen(p)) == 0
HasPrefixNoCase(s, p) ==
    /\ Len(s) >= Len(p)
    /\ \A i \in 1..Len(p) : ToLower(s[i]) = p[i]

RECURSIVE SkipSpace(_)
SkipSpace(s) == IF s # <<>> /\ s[1] = " " THEN SkipSpace(Tail(s)) ELSE s

\* the value of the longest run of decimal digits s starts with, after acc
RECURSIVE DigitRun(_, _)
DigitRun(s, acc) ==
    IF s # <<>> /\ IsDigit(s[1]) THEN DigitRun(Tail(s), 10 * acc + DigitVal(s[1])) ELSE acc

(***************************************************************************)
(* strtod(str, NULL) of the C library, on strings without '.', exponent or *)
(* hexadecimal parts: leading white space is skipped, then an optional     *)
(* sign, then INF or INFINITY or NAN in any case, or a run of digits; the  *)
(* longest such prefix is converted and the rest of the string is ignored. *)
(* A string with no such prefix converts to 0.                             *)
(***************************************************************************)
strtod(str) ==
    LET s1 == SkipSpace(str)
        signed == s1 # <<>> /\ s1[1] \in {"-", "+"}
        s2 == IF signed THEN Tail(s1) ELSE s1
        mag == IF HasPrefixNoCase(s2, S_inf) THEN PosInf
               ELSE IF HasPrefixNoCase(s2, S_nan) THEN NaN
               ELSE IF s2 # <<>> /\ IsDigit(s2[1]) THEN Fin(DigitRun(s2, 0))
               ELSE Fin(0)
    IN IF signed /\ s1[1] = "-" THEN Negate(mag) ELSE mag

(***************************************************************************)
(* cJSON items.  NULL is the absent item (what cJSON_GetObjectItem returns *)
(* for a missing key).  A scalar item has valuedouble 0 and valuestring    *)
(* NULL unless it is a number, respectively a string.                      *)
(***************************************************************************)
NULL == [type |-> "NULL"]
JNumber(n) == [type |-> "Number", valuedouble |-> Fin(n), valuestring |-> <<>>]
JString(s) == [type |-> "String", valuedouble |-> Fin(0), valuestring |-> s]
JTrue == [type |-> "True", valuedouble |-> Fin(0), valuestring |-> <<>>]
JFalse == [type |-> "False", valuedouble |-> Fin(0), valuestring |-> <<>>]
JNull == [type |-> "Null", valuedouble |-> Fin(0), valuestring |-> <<>>]
JArray(items) ==
    [type |-> "Array", valuedouble |-> Fin(0), valuestring |-> <<>>, child |-> items]

cJSON_IsNumber(item) == item.type = "Number"
cJSON_IsString(item) == item.type = "String"
cJSON_IsTrue(item) == item.type = "True"
\* item->valuedouble, and item->valueint (the same number as an int): 0 for an item
\* that is no number
valuedouble(item) == item.valuedouble
valueint(item) == item.valuedouble
\* item->valuestring is NULL for an item that is no string
ValueStringIsNull(item) == item.type # "String"
cJSON_GetArraySize(item) == IF item.type = "Array" THEN Len(item.child) ELSE 0
\* the elements cJSON_ArrayForEach visits, in order: none for NULL
ArrayItems(item) == IF item.type = "Array" THEN item.child ELSE <<>>
\* a JSON object: fields maps each key of the schema to its item, NULL when absent
JObject(fields) ==
    [type |-> "Object", valuedouble |-> Fin(0), valuestring |-> <<>>, fields |-> fields]
\* cJSON_GetObjectItem(object, key): NULL when object is NULL or has no such key
cJSON_GetObjectItem(object, key) ==
    IF object.type = "Object" /\ key \in DOMAIN object.fields THEN object.fields[key]
    ELSE NULL

\* parse_numeric_value without the "ninf" sentinel of line 96
parse_numeric_value_NoNinf(item) ==
    IF cJSON_IsNumber(item) THEN item.valuedouble
    ELSE IF cJSON_IsString(item) THEN
        LET str == item.valuestring IN
        IF str = S_inf \/ str = S_infinity THEN CUOPT_INFINITY
        ELSE IF str = S_minus_inf \/ str = S_minus_infinity THEN Negate(CUOPT_INFINITY)
        ELSE strtod(str)
    ELSE Fin(0)

\* parse_numeric_value with a leaf that is neither number nor string read as a
\* truth value, 1.0 for true
parse_numeric_value_TrueIsOne(item) ==
    IF cJSON_IsNumber(item) THEN item.valuedouble
    ELSE IF cJSON_IsString(item) THEN
        LET str == item.valuestring IN
        IF str = S_inf \/ str = S_infinity THEN CUOPT_INFINITY
        ELSE IF str = S_minus_inf \/ str = S_minus_infinity \/ str = S_ninf
             THEN Negate(CUOPT_INFINITY)
        ELSE strtod(str)
    ELSE IF cJSON_IsTrue(item) THEN Fin(1) ELSE Fin(0)

(***************************************************************************)
(* parse_numeric_value                                                     *)
(***************************************************************************)
parse_numeric_value(item) ==
    IF cJSON_IsNumber(item) THEN item.valuedouble
    ELSE IF cJSON_IsString(item) THEN
        LET str == item.valuestring IN
        IF str = S_inf \/ str = S_infinity THEN CUOPT_INFINITY
        ELSE IF str = S_minus_inf \/ str = S_minus_infinity \/ str = S_ninf
             THEN Negate(CUOPT_INFINITY)
        ELSE strtod(str)
    ELSE Fin(0)

(***************************************************************************)
(* Heap blocks and the ProblemData descriptor.  A pointer is null, or live *)
(* with the sequence of its slots.                                         *)
(***************************************************************************)
NullPtr == [p |-> "null", a |-> <<>>]
\* malloc(n * sizeof(T)): a negative n is a size no allocator grants, so NULL
Malloc(n, fill) == IF n < 0 THEN NullPtr ELSE [p |-> "live", a |-> [i \in 1..n |-> fill]]

\* the state of a ProblemData after memset(data, 0, sizeof(ProblemData))
ZeroProblemData ==
    [row_offsets |-> NullPtr, column_indices |-> NullPtr, matrix_values |-> NullPtr,
     num_constraints |-> 0, num_variables |-> 0, nnz |-> 0,
     objective_coefficients |-> NullPtr, objective_offset |-> Fin(0),
     objective_sense |-> "0",
     constraint_lower_bounds |-> NullPtr, constraint_upper_bounds |-> NullPtr,
     variable_lower_bounds |-> NullPtr, variable_upper_bounds |-> NullPtr,
     variable_types |-> NullPtr]

\* the nine pointers of a ProblemData
PointerFields ==
    {"row_offsets", "column_indices", "matrix_values", "objective_coefficients",
     "constraint_lower_bounds", "constraint_upper_bounds",
     "variable_lower_bounds", "variable_upper_bounds", "variable_types"}

\* the blocks of the descriptor after a section turned descriptor d into e: a
\* pointer that took a block from malloc has a live block
HeapAfterMalloc(h, d, e) ==
    [f \in PointerFields |->
        IF e[f].p = "live" /\ d[f] # e[f] THEN "live" ELSE h[f]]

\* lines 136-144 without the free of matrix_values
HeapAfterFree_KeepsMatrixValues(h, d) ==
    [f \in PointerFields |->
        IF d[f].p = "live" /\ f # "matrix_values"
        THEN (IF h[f] = "live" THEN "freed" ELSE "freed twice")
        ELSE h[f]]

\* lines 136-144: each pointer of d is handed to free; free(NULL) does nothing
HeapAfterFree(h, d) ==
    [f \in PointerFields |->
        IF d[f].p = "live"
        THEN (IF h[f] = "live" THEN "freed" ELSE "freed twice")
        ELSE h[f]]

\* the block after the loop  i = 0; for each item: ptr[i] = vals[i]; i++  where
\* every store lands inside the block
StoreAll(ptr, vals) ==
    [p |-> ptr.p,
     a |-> [i \in 1..Len(ptr.a) |-> IF i <= Len(vals) THEN vals[i] ELSE ptr.a[i]]]
\* the loop stores through a null pointer
NullStore(ptr, vals) == ptr.p = "null" /\ Len(vals) > 0
\* the loop stores past the end of the block
PastEnd(ptr, vals) == ptr.p = "live" /\ Len(vals) > Len(ptr.a)
\* what a sequence of loops did to memory: a null store faults first
FaultOf(nullStore, pastEnd) ==
    IF nullStore THEN "segv" ELSE IF pastEnd THEN "overrun" ELSE "none"

MapSeq(Op(_), s) == [i \in 1..Len(s) |-> Op(s[i])]
Min2(a, b) == IF a <= b THEN a ELSE b
Max2(a, b) == IF a >= b THEN a ELSE b

\* CUOPT_CONTINUOUS and CUOPT_INTEGER, the two chars a variable_types slot takes
CUOPT_CONTINUOUS == [k |-> "C", v |-> 0]
CUOPT_INTEGER == [k |-> "I", v |-> 0]
S_I == <<"I">>
S_L == <<"L">>
S_G == <<"G">>
S_E == <<"E">>

(***************************************************************************)
(* parse_cuopt_json, section by section.  Each section is an operator from *)
(* the document root and the descriptor so far to                          *)
(*   ret   "ok", or "fail" when the section returns -1                     *)
(*   data  the descriptor after the section                                *)
(*   fault "segv" when the section stores through NULL or hands NULL to    *)
(*         strcmp, "overrun" when it stores past the end of a block        *)
(***************************************************************************)
StepResult(ret, d, fault) == [ret |-> ret, data |-> d, fault |-> fault]

\* the check of line 222 without its last disjunct
CsrArraysMissing_ValuesUnchecked(offsets, indices, values) ==
    offsets = NULL \/ indices = NULL

\* line 222: the check of the three arrays
CsrArraysMissing(offsets, indices, values) ==
    offsets = NULL \/ indices = NULL \/ values = NULL

\* line 228 without the "- 1"
CountConstraints_OffByOne(offsets) == cJSON_GetArraySize(offsets)

\* line 228
CountConstraints(offsets) == cJSON_GetArraySize(offsets) - 1

\* lines 211-257
ParseCsrSection(root, d) ==
    LET csr_matrix == cJSON_GetObjectItem(root, "csr_constraint_matrix")
        offsets == cJSON_GetObjectItem(csr_matrix, "offsets")
        indices == cJSON_GetObjectItem(csr_matrix, "indices")
        values == cJSON_GetObjectItem(csr_matrix, "values")
        num_constraints == CountConstraints(offsets)
        nnz == cJSON_GetArraySize(indices)
        row_offsets == Malloc(num_constraints + 1, Indet)
        column_indices == Malloc(nnz, Indet)
        matrix_values == Malloc(nnz, Indet)
        offs == MapSeq(valueint, ArrayItems(offsets))
        idxs == MapSeq(valueint, ArrayItems(indices))
        vals == MapSeq(valuedouble, ArrayItems(values))
    IN  IF csr_matrix = NULL THEN StepResult("fail", d, "none")
        ELSE IF CsrArraysMissing(offsets, indices, values)
             THEN StepResult("fail", d, "none")
        ELSE StepResult("ok",
                 [d EXCEPT !.num_constraints = num_constraints,
                           !.nnz = nnz,
                           !.row_offsets = StoreAll(row_offsets, offs),
                           !.column_indices = StoreAll(column_indices, idxs),
                           !.matrix_values = StoreAll(matrix_values, vals)],
                 FaultOf(FALSE, PastEnd(matrix_values, vals)))

\* line 294 with any maximize other than false taken as true
ObjectiveSense_Truthy(maximize) ==
    IF maximize # NULL /\ maximize # JFalse THEN "CUOPT_MAXIMIZE" ELSE "CUOPT_MINIMIZE"

\* line 294: (maximize && cJSON_IsTrue(maximize)) ? CUOPT_MAXIMIZE : CUOPT_MINIMIZE
ObjectiveSense(maximize) ==
    IF maximize # NULL /\ cJSON_IsTrue(maximize) THEN "CUOPT_MAXIMIZE" ELSE "CUOPT_MINIMIZE"

\* line 288: offset ? offset->valuedouble : 0.0
ObjectiveOffset(offset) ==
    IF offset # NULL THEN offset.valuedouble ELSE Fin(0)

\* lines 268-294
ParseObjectiveSection(root, d) ==
    LET objective_data == cJSON_GetObjectItem(root, "objective_data")
        obj_coeffs == cJSON_GetObjectItem(objective_data, "coefficients")
        num_variables == cJSON_GetArraySize(obj_coeffs)
        objective_coefficients == Malloc(num_variables, Indet)
        coeffs == MapSeq(valuedouble, ArrayItems(obj_coeffs))
        offset == cJSON_GetObjectItem(objective_data, "offset")
        maximize == cJSON_GetObjectItem(root, "maximize")
    IN  IF objective_data = NULL THEN StepResult("fail", d, "none")
        ELSE StepResult("ok",
                 [d EXCEPT !.num_variables = num_variables,
                           !.objective_coefficients =
                               StoreAll(objective_coefficients, coeffs),
                           !.objective_offset = ObjectiveOffset(offset),
                           !.objective_sense = ObjectiveSense(maximize)],
                 "none")

\* lines 335-356 with the loop left one constraint early
RelationalCount_OneLess(bounds, types, num_constraints) ==
    Max2(Min2(Min2(Len(bounds), Len(types)), num_constraints) - 1, 0)

\* lines 335-356: the number of constraints the lockstep loop goes through
RelationalCount(bounds, types, num_constraints) ==
    Min2(Min2(Len(bounds), Len(types)), Max2(num_constraints, 0))

\* lines 339-351 with the branches of "L" and "G" exchanged
RelationalPair_Swapped(bound_item, type_item, old) ==
    LET bound_value == parse_numeric_value(bound_item)
        type == type_item.valuestring
    IN  IF type = S_G THEN [lo |-> Negate(CUOPT_INFINITY), hi |-> bound_value]
        ELSE IF type = S_L THEN [lo |-> bound_value, hi |-> CUOPT_INFINITY]
        ELSE IF type = S_E THEN [lo |-> bound_value, hi |-> bound_value]
        ELSE old

\* lines 339-351 with "E" leaving the upper bound open
RelationalPair_EqualityOpen(bound_item, type_item, old) ==
    LET bound_value == parse_numeric_value(bound_item)
        type == type_item.valuestring
    IN  IF type = S_L THEN [lo |-> Negate(CUOPT_INFINITY), hi |-> bound_value]
        ELSE IF type = S_G THEN [lo |-> bound_value, hi |-> CUOPT_INFINITY]
        ELSE IF type = S_E THEN [lo |-> bound_value, hi |-> CUOPT_INFINITY]
        ELSE old

\* lines 339-351: the (lower, upper) slots of one constraint after its loop body
RelationalPair(bound_item, type_item, old) ==
    LET bound_value == parse_numeric_value(bound_item)
        type == type_item.valuestring
    IN  IF type = S_L THEN [lo |-> Negate(CUOPT_INFINITY), hi |-> bound_value]
        ELSE IF type = S_G THEN [lo |-> bound_value, hi |-> CUOPT_INFINITY]
        ELSE IF type = S_E THEN [lo |-> bound_value, hi |-> bound_value]
        ELSE old

\* lines 313-333 with the relational form tried first
BoundsForm_RelationalFirst(lower_bounds, upper_bounds, bounds, types) ==
    IF bounds # NULL /\ types # NULL THEN "relational"
    ELSE IF lower_bounds # NULL /\ upper_bounds # NULL THEN "explicit"
    ELSE "none"

\* lines 313, 328-333: which encoding of the constraint bounds is read
BoundsForm(lower_bounds, upper_bounds, bounds, types) ==
    IF lower_bounds # NULL /\ upper_bounds # NULL THEN "explicit"
    ELSE IF bounds # NULL /\ types # NULL THEN "relational"
    ELSE "none"

\* lines 305-359
ParseConstraintBoundsSection(root, d) ==
    LET constraint_bounds == cJSON_GetObjectItem(root, "constraint_bounds")
        lo0 == Malloc(d.num_constraints, Indet)
        hi0 == Malloc(d.num_constraints, Indet)
        lower_bounds == cJSON_GetObjectItem(constraint_bounds, "lower_bounds")
        upper_bounds == cJSON_GetObjectItem(constraint_bounds, "upper_bounds")
        lows == MapSeq(parse_numeric_value, ArrayItems(lower_bounds))
        ups == MapSeq(parse_numeric_value, ArrayItems(upper_bounds))
        bounds == cJSON_GetObjectItem(constraint_bounds, "bounds")
        types == cJSON_GetObjectItem(constraint_bounds, "types")
        bs == ArrayItems(bounds)
        ts == ArrayItems(types)
        m == RelationalCount(bs, ts, d.num_constraints)
        pair(i) == RelationalPair(bs[i], ts[i], [lo |-> lo0.a[i], hi |-> hi0.a[i]])
        form == BoundsForm(lower_bounds, upper_bounds, bounds, types)
    IN  IF constraint_bounds = NULL THEN StepResult("ok", d, "none")
        ELSE IF form = "explicit" THEN
            StepResult("ok",
                [d EXCEPT !.constraint_lower_bounds = StoreAll(lo0, lows),
                          !.constraint_upper_bounds = StoreAll(hi0, ups)],
                FaultOf(NullStore(lo0, lows) \/ NullStore(hi0, ups),
                        PastEnd(lo0, lows) \/ PastEnd(hi0, ups)))
        ELSE IF form = "relational" THEN
            StepResult("ok",
                [d EXCEPT !.constraint_lower_bounds =
                              [p |-> lo0.p,
                               a |-> [i \in 1..Len(lo0.a) |->
                                        IF i <= m THEN pair(i).lo ELSE lo0.a[i]]],
                          !.constraint_upper_bounds =
                              [p |-> hi0.p,
                               a |-> [i \in 1..Len(hi0.a) |->
                                        IF i <= m THEN pair(i).hi ELSE hi0.a[i]]]],
                FaultOf(\E i \in 1..m : ValueStringIsNull(ts[i]), FALSE))
        ELSE StepResult("ok",
                [d EXCEPT !.constraint_lower_bounds = lo0,
                          !.constraint_upper_bounds = hi0],
                "none")

\* lines 370-392
ParseVariableBoundsSection(root, d) ==
    LET variable_bounds == cJSON_GetObjectItem(root, "variable_bounds")
        lo0 == Malloc(d.num_variables, Indet)
        hi0 == Malloc(d.num_variables, Indet)
        var_lower == cJSON_GetObjectItem(variable_bounds, "lower_bounds")
        var_upper == cJSON_GetObjectItem(variable_bounds, "upper_bounds")
        lows == MapSeq(parse_numeric_value, ArrayItems(var_lower))
        ups == MapSeq(parse_numeric_value, ArrayItems(var_upper))
    IN  IF variable_bounds = NULL THEN StepResult("ok", d, "none")
        ELSE StepResult("ok",
                [d EXCEPT !.variable_lower_bounds = StoreAll(lo0, lows),
                          !.variable_upper_bounds = StoreAll(hi0, ups)],
                FaultOf(FALSE, PastEnd(lo0, lows) \/ PastEnd(hi0, ups)))

\* lines 410-415: the char stored for one element of variable_types
VariableTypeOf(type_item) ==
    IF type_item.valuestring = S_I THEN CUOPT_INTEGER ELSE CUOPT_CONTINUOUS

\* lines 403-424
ParseVariableTypesSection(root, d) ==
    LET variable_types == cJSON_GetObjectItem(root, "variable_types")
        t0 == Malloc(d.num_variables, Indet)
        items == ArrayItems(variable_types)
        chars == MapSeq(VariableTypeOf, items)
    IN  IF variable_types # NULL THEN
            StepResult("ok",
                [d EXCEPT !.variable_types = StoreAll(t0, chars)],
                FaultOf(\E i \in 1..Len(items) : ValueStringIsNull(items[i]),
                        PastEnd(t0, chars)))
        ELSE StepResult("ok",
                [d EXCEPT !.variable_types = Malloc(d.num_variables, CUOPT_CONTINUOUS)],
                "none")

(***************************************************************************)
(* The input documents.  An array of the schema is drawn by its length,    *)
(* with pairwise different elements; the constraint and variable bound     *)
(* arrays and the type arrays are drawn from the leaves the parser         *)
(* distinguishes.                                                          *)
(***************************************************************************)
Document(csr, obj, maximize, cb, vb, vt) ==
    JObject([csr_constraint_matrix |-> csr, objective_data |-> obj,
             maximize |-> maximize, constraint_bounds |-> cb,
             variable_bounds |-> vb, variable_types |-> vt])
CsrMatrix(offsets, indices, values) ==
    JObject([offsets |-> offsets, indices |-> indices, values |-> values])
ObjectiveData(coefficients, offset) ==
    JObject([coefficients |-> coefficients, offset |-> offset])
ConstraintBounds(lower, upper, bounds, types) ==
    JObject([lower_bounds |-> lower, upper_bounds |-> upper,
             bounds |-> bounds, types |-> types])
VariableBounds(lower, upper) ==
    JObject([lower_bounds |-> lower, upper_bounds |-> upper])

\* all sequences over S of length at most n
RECURSIVE SeqsUpTo(_, _)
SeqsUpTo(S, n) ==
    IF n <= 0 THEN {<<>>}
    ELSE LET shorter == SeqsUpTo(S, n - 1)
         IN shorter \cup {Append(q, x) : q \in shorter, x \in S}

\* the elements of the modelled arrays, by position
OffsetAt(i) == JNumber(2 * (i - 1))
IndexAt(i) == JNumber((i - 1) % 2)
ValueAt(i) == JNumber(i + 2)
CoeffAt(i) == JNumber(0 - i)
RisingAt(i) == JNumber(10 * i)
FallingAt(i) == JNumber(5 - 10 * i)
LowerAt(i) == IF i % 2 = 1 THEN JString(S_minus_inf) ELSE JNumber(i)
UpperAt(i) == IF i % 2 = 1 THEN JNumber(i + 4) ELSE JString(S_inf)
BoundAt(i) == JNumber(270 - 40 * i)

\* the array of the first n elements of each kind
OffsetsOf(n) == JArray([i \in 1..n |-> OffsetAt(i)])
IndicesOf(n) == JArray([i \in 1..n |-> IndexAt(i)])
ValuesOf(n) == JArray([i \in 1..n |-> ValueAt(i)])
CoeffsOf(n) == JArray([i \in 1..n |-> CoeffAt(i)])
RisingsOf(n) == JArray([i \in 1..n |-> RisingAt(i)])
FallingsOf(n) == JArray([i \in 1..n |-> FallingAt(i)])
LowersOf(n) == JArray([i \in 1..n |-> LowerAt(i)])
UppersOf(n) == JArray([i \in 1..n |-> UpperAt(i)])
BoundsOf(n) == JArray([i \in 1..n |-> BoundAt(i)])
OffsetArrays == {OffsetsOf(n) : n \in 0..(MaxRows + 1)}
IndexArrays == {IndicesOf(n) : n \in 0..MaxNnz}
ValueArrays == {ValuesOf(n) : n \in 0..(MaxNnz + 1)}
CoeffArrays == {CoeffsOf(n) : n \in 0..MaxVars}
BoundValueArrays(maxlen) ==
    {RisingsOf(n) : n \in 0..maxlen} \cup {FallingsOf(n) : n \in 1..maxlen}
      \cup {LowersOf(n) : n \in 1..maxlen} \cup {UppersOf(n) : n \in 1..maxlen}

\* the scalar leaves a bound array may hold
BoundLeaves ==
    {JNumber(-3), JNumber(0), JNumber(5), JTrue, JNull, JArray(<<>>),
     JString(S_inf), JString(S_infinity), JString(S_minus_inf),
     JString(S_minus_infinity), JString(S_ninf),
     JString(<<"I", "N", "F">>), JString(<<"-", "I", "n", "f", "i", "n", "i", "t", "y">>),
     JString(<<"+", "i", "n", "f">>), JString(S_nan),
     JString(<<"1", "2">>), JString(<<"-", "7">>), JString(<<" ", "4">>),
     JString(<<"3", "z">>), JString(<<"z">>), JString(<<>>)}
\* the elements a types array may hold
TypeLeaves == {JString(S_L), JString(S_G), JString(S_E), JString(<<"X">>)}
\* the elements a variable_types array may hold
VariableTypeLeaves == {JString(S_I), JString(<<"C">>), JNumber(1)}

WellFormedCsr(nc) ==
    CsrMatrix(OffsetsOf(nc + 1), IndicesOf(MaxNnz), ValuesOf(MaxNnz))
WellFormedObjective(nv) == ObjectiveData(CoeffsOf(nv), NULL)

\* documents that vary the CSR matrix object
CsrDocuments ==
    {Document(csr, obj, NULL, NULL, NULL, NULL) :
        csr \in {NULL} \cup {CsrMatrix(o, i, v) : o \in OffsetArrays \cup {NULL},
                                                 i \in IndexArrays \cup {NULL},
                                                 v \in ValueArrays \cup {NULL}},
        obj \in {NULL, ObjectiveData(NULL, NULL)}
                 \cup {WellFormedObjective(nv) : nv \in 0..MaxVars}}
\* documents that vary objective_data and maximize
ObjectiveDocuments ==
    {Document(WellFormedCsr(1), obj, maximize, NULL, NULL, NULL) :
        obj \in {NULL} \cup {ObjectiveData(c, off) : c \in CoeffArrays \cup {NULL},
                                                    off \in {NULL, JNumber(7)}},
        maximize \in {NULL, JTrue, JFalse, JNumber(1)}}
\* documents whose constraint bounds are in the explicit form
ExplicitDocuments ==
    {Document(WellFormedCsr(nc), WellFormedObjective(1),
              NULL, ConstraintBounds(lo, hi, NULL, NULL), NULL, NULL) :
        nc \in (-1)..MaxRows,
        lo \in BoundValueArrays(MaxRows + 1), hi \in BoundValueArrays(MaxRows + 1)}
\* documents whose constraint bounds are in the relational form
RelationalDocuments ==
    {Document(WellFormedCsr(nc), WellFormedObjective(1),
              NULL, ConstraintBounds(NULL, NULL, b, t), NULL, NULL) :
        nc \in (-1)..MaxRows,
        b \in {NULL} \cup {BoundsOf(n) : n \in 0..(MaxRows + 1)},
        t \in {NULL, JArray(<<JString(S_G), JNumber(1)>>)}
                \cup {JArray(q) : q \in SeqsUpTo(TypeLeaves, MaxRows)}}
\* relational documents of one constraint, with any leaf as its bound
RelationalLeafDocuments ==
    {Document(WellFormedCsr(1), WellFormedObjective(1), NULL,
              ConstraintBounds(NULL, NULL, JArray(<<x>>), JArray(<<t>>)), NULL, NULL) :
        x \in BoundLeaves, t \in TypeLeaves}
\* documents with any subset of the four keys of constraint_bounds
MixedDocuments ==
    UNION {{Document(WellFormedCsr(nc), WellFormedObjective(1),
                     NULL, ConstraintBounds(lo, hi, b, t), NULL, NULL) :
               lo \in {NULL, LowersOf(nc)}, hi \in {NULL, UppersOf(nc)},
               b \in {NULL, BoundsOf(nc)},
               t \in {NULL, JArray([i \in 1..nc |-> JString(S_G)])}} :
           nc \in 1..MaxRows}
\* documents with one leaf in each of the four bound arrays
LeafDocuments ==
    {Document(WellFormedCsr(1), WellFormedObjective(1), NULL,
              ConstraintBounds(JArray(<<x>>), JArray(<<y>>), NULL, NULL),
              VariableBounds(JArray(<<y>>), JArray(<<x>>)), NULL) :
        x \in BoundLeaves, y \in BoundLeaves}
\* documents that vary variable_bounds
VariableBoundsDocuments ==
    {Document(WellFormedCsr(1), obj, NULL, NULL, vb, NULL) :
        obj \in {ObjectiveData(NULL, NULL)} \cup {WellFormedObjective(nv) : nv \in 0..MaxVars},
        vb \in {NULL, JNumber(0)}
                \cup {VariableBounds(lo, hi) :
                        lo \in {NULL} \cup {LowersOf(n) : n \in 0..(MaxVars + 1)},
                        hi \in {NULL} \cup {UppersOf(n) : n \in 0..(MaxVars + 1)}}}
\* documents that vary variable_types
VariableTypesDocuments ==
    {Document(WellFormedCsr(1), WellFormedObjective(nv), NULL, NULL, NULL, vt) :
        nv \in 0..MaxVars,
        vt \in {NULL} \cup {JArray(q) : q \in SeqsUpTo(VariableTypeLeaves, MaxVars + 1)}}

Documents ==
    CsrDocuments \cup ObjectiveDocuments \cup ExplicitDocuments \cup RelationalDocuments
      \cup RelationalLeafDocuments \cup MixedDocuments \cup LeafDocuments \cup VariableBoundsDocuments
      \cup VariableTypesDocuments

\* the documents main is also run on with --mps-output
MpsDocuments ==
    {Document(WellFormedCsr(1), WellFormedObjective(nv), NULL, NULL, NULL, NULL) :
        nv \in 1..MaxVars}

\* what main is run with: the command line, the file, and the document in the file
Environments ==
    {[args |-> "ok", file |-> "ok", doc |-> doc] : doc \in Documents}
      \cup {[args |-> "mps", file |-> "ok", doc |-> doc] : doc \in MpsDocuments}
      \cup {[args |-> a, file |-> f, doc |-> NULL] :
              a \in {"ok"}, f \in {"unreadable", "nomem", "malformed"}}
      \cup {[args |-> "usage", file |-> "ok", doc |-> NULL]}

(***************************************************************************)
(* The state.                                                              *)
(*   pc         where main (and the function it is in) stands              *)
(*   env        the command line, the file and the document                *)
(*   json       the cJSON tree: "none", "live", "deleted" or "deleted      *)
(*              twice"                                                     *)
(*   data       main's ProblemData                                         *)
(*   parse_ret  <<>> until parse_cuopt_json returns, then <<its value>>    *)
(*   overrun    some store of the parser landed past the end of its block  *)
(*   heap       for each pointer of the descriptor: "none" while no block   *)
(*              was allocated for it, "live", "freed" or "freed twice"     *)
(*   calls      the cuOpt calls solve_problem has made, each with the      *)
(*              status it returned                                         *)
(*   handed     <<>> until solve_problem passes the descriptor to          *)
(*              cuOptCreateRangedProblem, then <<the descriptor passed>>   *)
(*   problem, settings, solution   the cuOpt handles of solve_problem      *)
(*   status     solve_problem's status variable                            *)
(*   exit_code  <<>> while main runs, then <<its return value>>            *)
(***************************************************************************)
\* solve_problem, lines 445-447: the three handles it declares
Handles == {"problem", "settings", "solution"}

Init ==
    /\ pc = "main"
    /\ env \in Environments
    /\ json = "none"
    /\ data = ZeroProblemData
    /\ parse_ret = <<>>
    /\ overrun = FALSE
    /\ heap = [f \in PointerFields |-> "none"]
    /\ handed = <<>>
    /\ problem = "NULL"
    /\ settings = "NULL"
    /\ solution = "NULL"
    /\ status = "unset"
    /\ calls = <<>>
    /\ destroys = [h \in Handles |-> 0]
    /\ exit_code = <<>>

solverVars == <<handed, problem, settings, solution, status, calls, destroys>>

\* a free_problem_data without the memset of line 144: the pointers stay
free_problem_data_NoReset(d) == d

\* free_problem_data: every sequence is handed to free and the struct is zeroed
free_problem_data(d) == ZeroProblemData

\* lines 23, 642-647: mps_output_file is NULL unless --mps-output names a file
mps_output_file == IF env.args = "mps" THEN "file" ELSE "NULL"

\* main, lines 639-685: the command line is read and data is zeroed
MainArguments ==
    /\ pc = "main"
    /\ \/ /\ env.args = "usage"
          /\ pc' = "exit"
          /\ exit_code' = <<1>>
       \/ /\ env.args \in {"ok", "mps"}
          /\ pc' = "open"
          /\ exit_code' = exit_code
    /\ UNCHANGED <<env, json, data, parse_ret, overrun, heap, solverVars>>

\* parse_cuopt_json, lines 159-187: the file is opened and read
ParseReadFile ==
    /\ pc = "open"
    /\ \/ /\ env.file \in {"unreadable", "nomem"}
          /\ parse_ret' = <<-1>>
          /\ pc' = "parsed"
       \/ /\ env.file \in {"ok", "malformed"}
          /\ parse_ret' = parse_ret
          /\ pc' = "load"
    /\ UNCHANGED <<env, json, data, overrun, heap, solverVars, exit_code>>

\* lines 194-204: cJSON_Parse
ParseJson ==
    /\ pc = "load"
    /\ \/ /\ env.file = "malformed"
          /\ parse_ret' = <<-1>>
          /\ json' = json
          /\ pc' = "parsed"
       \/ /\ env.file = "ok"
          /\ parse_ret' = parse_ret
          /\ json' = "live"
          /\ pc' = "csr"
    /\ UNCHANGED <<env, data, overrun, heap, solverVars, exit_code>>

\* cJSON_Delete that leaves the tree in place
cJSON_Delete_Kept(tree) == tree

\* lines 214, 224, 271, 430: cJSON_Delete(json)
cJSON_Delete(tree) == IF tree = "live" THEN "deleted" ELSE "deleted twice"

\* a section returned -1: the tree is deleted first
SectionFails(r) ==
    /\ r.ret = "fail"
    /\ json' = cJSON_Delete(json)
    /\ parse_ret' = <<-1>>
    /\ data' = r.data
    /\ heap' = HeapAfterMalloc(heap, data, r.data)
    /\ pc' = "parsed"
    /\ overrun' = overrun

\* a section ran through.  A store past the end of a block is undefined: it may
\* land in memory nothing reads again, or end the process; a store through NULL
\* and a NULL handed to strcmp end the process.
SectionRuns(r, next) ==
    /\ r.ret = "ok"
    /\ UNCHANGED <<json, parse_ret>>
    /\ \/ /\ r.fault = "none"
          /\ data' = r.data
          /\ heap' = HeapAfterMalloc(heap, data, r.data)
          /\ overrun' = overrun
          /\ pc' = next
       \/ /\ r.fault = "overrun"
          /\ data' = r.data
          /\ heap' = HeapAfterMalloc(heap, data, r.data)
          /\ overrun' = TRUE
          /\ pc' = next
       \/ /\ r.fault \in {"overrun", "segv"}
          /\ data' = data
          /\ heap' = heap
          /\ overrun' = overrun
          /\ pc' = "crashed"

ParseCsr ==
    /\ pc = "csr"
    /\ LET r == ParseCsrSection(env.doc, data)
       IN SectionFails(r) \/ SectionRuns(r, "objective")
    /\ UNCHANGED <<env, solverVars, exit_code>>

ParseObjective ==
    /\ pc = "objective"
    /\ LET r == ParseObjectiveSection(env.doc, data)
       IN SectionFails(r) \/ SectionRuns(r, "constraint_bounds")
    /\ UNCHANGED <<env, solverVars, exit_code>>

ParseConstraintBounds ==
    /\ pc = "constraint_bounds"
    /\ SectionRuns(ParseConstraintBoundsSection(env.doc, data), "variable_bounds")
    /\ UNCHANGED <<env, solverVars, exit_code>>

ParseVariableBounds ==
    /\ pc = "variable_bounds"
    /\ SectionRuns(ParseVariableBoundsSection(env.doc, data), "variable_types")
    /\ UNCHANGED <<env, solverVars, exit_code>>

ParseVariableTypes ==
    /\ pc = "variable_types"
    /\ SectionRuns(ParseVariableTypesSection(env.doc, data), "finish")
    /\ UNCHANGED <<env, solverVars, exit_code>>

\* lines 430-436: the tree is deleted and parse_cuopt_json returns 0
ParseFinish ==
    /\ pc = "finish"
    /\ json' = cJSON_Delete(json)
    /\ parse_ret' = <<0>>
    /\ pc' = "parsed"
    /\ UNCHANGED <<env, data, overrun, heap, solverVars, exit_code>>

\* main, line 699: the status main returns when parse_cuopt_json fails
IngestionExitStatus == 1

\* main, lines 696-700: parsing failed
MainParseFailed ==
    /\ pc = "parsed"
    /\ parse_ret # <<0>>
    /\ data' = free_problem_data(data)
    /\ heap' = HeapAfterFree(heap, data)
    /\ exit_code' = <<IngestionExitStatus>>
    /\ pc' = "exit"
    /\ UNCHANGED <<env, json, parse_ret, overrun, solverVars>>

\* main, lines 702-705: parsing succeeded and solve_problem is entered
MainSolve ==
    /\ pc = "parsed"
    /\ parse_ret = <<0>>
    /\ pc' = "create_problem"
    /\ UNCHANGED <<env, json, data, parse_ret, overrun, heap, solverVars, exit_code>>

\* the status a call of the cuOpt library returns
Statuses == {"CUOPT_SUCCESS", "CUOPT_ERROR"}

\* one call of the cuOpt library and the status it returned
Call(name, st) == [call |-> name, status |-> st]

\* solve_problem, lines 459-481: cuOptCreateRangedProblem
SolveCreateProblem ==
    /\ pc = "create_problem"
    /\ handed' = <<data>>
    /\ \E st \in Statuses :
          /\ status' = st
          /\ calls' = Append(calls, Call("cuOptCreateRangedProblem", st))
          /\ problem' = IF st = "CUOPT_SUCCESS" THEN "live" ELSE problem
          /\ pc' = IF st = "CUOPT_SUCCESS" THEN "create_settings" ELSE "cleanup"
    /\ UNCHANGED <<env, json, data, parse_ret, overrun, heap, settings, solution, exit_code, destroys>>

\* lines 488-492: cuOptCreateSolverSettings
SolveCreateSettings ==
    /\ pc = "create_settings"
    /\ \E st \in Statuses :
          /\ status' = st
          /\ calls' = Append(calls, Call("cuOptCreateSolverSettings", st))
          /\ settings' = IF st = "CUOPT_SUCCESS" THEN "live" ELSE settings
          /\ pc' = IF st = "CUOPT_SUCCESS" THEN "set_parameters" ELSE "cleanup"
    /\ UNCHANGED <<env, json, data, parse_ret, overrun, heap, handed, problem, solution,
                   exit_code, destroys>>

\* lines 495-513 with a parameter that could not be set ending the solve
SolveSetParameters_FailureStops ==
    /\ pc = "set_parameters"
    /\ \E tolerance \in Statuses, limit \in Statuses, file \in Statuses :
          /\ status' = (IF mps_output_file # "NULL" THEN file ELSE limit)
          /\ calls' = calls
                \o <<Call("cuOptSetFloatParameter tolerance", tolerance),
                     Call("cuOptSetFloatParameter time limit", limit)>>
                \o (IF mps_output_file # "NULL"
                    THEN <<Call("cuOptSetParameter user problem file", file)>>
                    ELSE <<>>)
          /\ pc' = IF tolerance = "CUOPT_SUCCESS" /\ limit = "CUOPT_SUCCESS"
                   THEN "solve" ELSE "cleanup"
    /\ UNCHANGED <<env, json, data, parse_ret, overrun, heap, handed, problem, settings,
                   solution, exit_code, destroys>>

\* lines 495-513: the tolerance and the time limit are set, and the MPS output
\* file when one was asked for; a failure is only a warning
SolveSetParameters ==
    /\ pc = "set_parameters"
    /\ \E tolerance \in Statuses, limit \in Statuses, file \in Statuses :
          /\ status' = (IF mps_output_file # "NULL" THEN file ELSE limit)
          /\ calls' = calls
                \o <<Call("cuOptSetFloatParameter tolerance", tolerance),
                     Call("cuOptSetFloatParameter time limit", limit)>>
                \o (IF mps_output_file # "NULL"
                    THEN <<Call("cuOptSetParameter user problem file", file)>>
                    ELSE <<>>)
    /\ pc' = "solve"
    /\ UNCHANGED <<env, json, data, parse_ret, overrun, heap, handed, problem, settings,
                   solution, exit_code, destroys>>

\* lines 524-533: cuOptSolve
SolveRun ==
    /\ pc = "solve"
    /\ \E st \in Statuses :
          /\ status' = st
          /\ calls' = Append(calls, Call("cuOptSolve", st))
          /\ solution' = IF st = "CUOPT_SUCCESS" THEN "live" ELSE solution
          /\ pc' = IF st = "CUOPT_SUCCESS" THEN "get_results" ELSE "cleanup"
    /\ UNCHANGED <<env, json, data, parse_ret, overrun, heap, handed, problem, settings,
                   exit_code, destroys>>

\* lines 544-560: the three queries every solve needs, in the order of the calls
RequiredQueries ==
    <<"cuOptGetSolveTime", "cuOptGetTerminationStatus", "cuOptGetObjectiveValue">>

\* lines 544-560: the queries are made one after the other up to the first that
\* fails, bad, or all of them when bad is 0
SolveGetResults ==
    /\ pc = "get_results"
    /\ \E bad \in 0..Len(RequiredQueries) :
          /\ calls' = calls \o
                [i \in 1..(IF bad = 0 THEN Len(RequiredQueries) ELSE bad) |->
                    Call(RequiredQueries[i],
                         IF i = bad THEN "CUOPT_ERROR" ELSE "CUOPT_SUCCESS")]
          /\ status' = IF bad = 0 THEN "CUOPT_SUCCESS" ELSE "CUOPT_ERROR"
          /\ pc' = IF bad = 0 THEN "extract" ELSE "cleanup"
    /\ UNCHANGED <<env, json, data, parse_ret, overrun, heap, handed, problem, settings,
                   solution, exit_code, destroys>>

\* lines 574-609: the primal solution, then cuOptIsMIP and, for a MIP, the gap and
\* the solution bound; each call assigns status and none of them is tested
\* before CLEANUP
SolveExtract ==
    /\ pc = "extract"
    /\ \E primal \in Statuses, mip \in Statuses, is_mip \in BOOLEAN,
          gap \in Statuses, bound \in Statuses :
          LET queried == mip = "CUOPT_SUCCESS" /\ is_mip
          IN  /\ calls' = calls
                    \o <<Call("cuOptGetPrimalSolution", primal), Call("cuOptIsMIP", mip)>>
                    \o (IF queried
                        THEN <<Call("cuOptGetMIPGap", gap),
                               Call("cuOptGetSolutionBound", bound)>>
                        ELSE <<>>)
              /\ status' = IF queried THEN bound ELSE mip
    /\ pc' = "cleanup"
    /\ UNCHANGED <<env, json, data, parse_ret, overrun, heap, handed, problem, settings,
                   solution, exit_code, destroys>>

\* a destroy call that leaves the handle as it was
Destroyed_Leaked(handle) == handle

\* cuOptDestroyProblem and its like: a NULL handle is left alone, a handle that was
\* created is destroyed, a handle already destroyed would be destroyed again
Destroyed(handle) ==
    IF handle = "live" THEN "destroyed"
    ELSE IF handle = "destroyed" THEN "destroyed twice"
    ELSE handle

\* lines 615-633: the handles are destroyed and status is returned
SolveCleanup ==
    /\ pc = "cleanup"
    /\ problem' = Destroyed(problem)
    /\ settings' = Destroyed(settings)
    /\ solution' = Destroyed(solution)
    /\ destroys' = [h \in Handles |-> destroys[h] + 1]
    /\ pc' = "solved"
    /\ UNCHANGED <<env, json, data, parse_ret, overrun, heap, handed, status, calls,
                   exit_code>>

\* main, lines 712-728: the descriptor is freed and the exit status chosen
MainFinish ==
    /\ pc = "solved"
    /\ data' = free_problem_data(data)
    /\ heap' = HeapAfterFree(heap, data)
    /\ exit_code' = IF status = "CUOPT_SUCCESS" THEN <<0>> ELSE <<1>>
    /\ pc' = "exit"
    /\ UNCHANGED <<env, json, parse_ret, overrun, solverVars>>

Next ==
    \/ MainArguments
    \/ ParseReadFile
    \/ ParseJson
    \/ ParseCsr
    \/ ParseObjective
    \/ ParseConstraintBounds
    \/ ParseVariableBounds
    \/ ParseVariableTypes
    \/ ParseFinish
    \/ MainParseFailed
    \/ MainSolve
    \/ SolveCreateProblem
    \/ SolveCreateSettings
    \/ SolveSetParameters
    \/ SolveRun
    \/ SolveGetResults
    \/ SolveExtract
    \/ SolveCleanup
    \/ MainFinish

Spec == Init /\ [][Next]_vars

(***************************************************************************)
(* What the properties below speak of.                                     *)
(***************************************************************************)
\* main was given a document that cJSON_Parse accepts
HasDocument == env.doc # NULL
DocField(key) == cJSON_GetObjectItem(env.doc, key)
DocCsr(key) == cJSON_GetObjectItem(DocField("csr_constraint_matrix"), key)
DocObjective(key) == cJSON_GetObjectItem(DocField("objective_data"), key)
DocConstraintBounds(key) == cJSON_GetObjectItem(DocField("constraint_bounds"), key)
DocVariableBounds(key) == cJSON_GetObjectItem(DocField("variable_bounds"), key)
\* the elements of an item of the document that is an array
Elements(item) == item.child

\* solve_problem has been entered
InSolveProblem ==
    pc \in {"create_problem", "create_settings", "set_parameters", "solve",
            "get_results", "extract", "cleanup", "solved"}
\* parse_cuopt_json returned 0 and main has not yet freed the descriptor
ParseSucceeded == parse_ret = <<0>> /\ pc # "exit"
\* the descriptor holds what the constraint-bounds section wrote
PastConstraintBounds ==
    pc \in {"variable_bounds", "variable_types", "finish"} \/ ParseSucceeded
\* the descriptor holds what the variable-bounds section wrote
PastVariableBounds == pc \in {"variable_types", "finish"} \/ ParseSucceeded

(***************************************************************************)
(* C1                                                                      *)
(***************************************************************************)
CsrIncomplete ==
    /\ HasDocument
    /\ \/ DocField("csr_constraint_matrix") = NULL
       \/ DocCsr("offsets") = NULL
       \/ DocCsr("indices") = NULL
       \/ DocCsr("values") = NULL

\* C1: when the document lacks csr_constraint_matrix, or lacks one of its offsets,
\* indices and values arrays, parse_cuopt_json never gets past the CSR section and
\* never returns 0; once it has returned, it returned -1; solve_problem is never
\* entered and no descriptor is passed to the solver.
C1_IncompleteCsrFails ==
    CsrIncomplete =>
        /\ pc \in {"main", "open", "load", "csr", "parsed", "exit"}
        /\ parse_ret # <<0>>
        /\ (pc \in {"parsed", "exit"} => parse_ret = <<-1>>)
        /\ ~InSolveProblem
        /\ handed = <<>>

\* a document whose CSR object lacks only the values array was rejected and main
\* has returned
C1_Witness ==
    /\ HasDocument
    /\ DocCsr("offsets") # NULL
    /\ DocCsr("indices") # NULL
    /\ DocCsr("values") = NULL
    /\ parse_ret = <<-1>>
    /\ pc = "exit"
    /\ exit_code = <<1>>

(***************************************************************************)
(* C2                                                                      *)
(***************************************************************************)
\* C2: parse_cuopt_json does not return 0 for a document without objective_data,
\* nor for one whose objective_data has no coefficients array.
C2_ObjectiveRequiresCoefficients ==
    (HasDocument /\ (DocField("objective_data") = NULL \/ DocObjective("coefficients") = NULL))
        => parse_ret # <<0>>

(***************************************************************************)
(* C3                                                                      *)
(***************************************************************************)
\* the sequence holds the numbers of the array's elements, in the array's order
HoldsInOrder(ptr, array) ==
    /\ ptr.p = "live"
    /\ Len(ptr.a) = Len(Elements(array))
    /\ \A i \in 1..Len(ptr.a) : ptr.a[i] = Elements(array)[i].valuedouble

\* C3: after a successful parse numConstraints is the length of offsets less one,
\* nonZeroCount the length of indices and numVariables the length of coefficients
\* (when the document has that array), and row_offsets, column_indices and
\* objective_coefficients hold the elements of those arrays in document order.
C3_CountsAndOrder ==
    ParseSucceeded =>
        /\ data.num_constraints = Len(Elements(DocCsr("offsets"))) - 1
        /\ data.nnz = Len(Elements(DocCsr("indices")))
        /\ HoldsInOrder(data.row_offsets, DocCsr("offsets"))
        /\ HoldsInOrder(data.column_indices, DocCsr("indices"))
        /\ (DocObjective("coefficients") # NULL =>
               /\ data.num_variables = Len(Elements(DocObjective("coefficients")))
               /\ HoldsInOrder(data.objective_coefficients, DocObjective("coefficients")))

\* offsets = [0,2,4], four indices and two coefficients were parsed into 2
\* constraints, 4 non-zeros and 2 variables
C3_Witness ==
    /\ ParseSucceeded
    /\ data.num_constraints = 2
    /\ data.nnz = 4
    /\ data.num_variables = 2
    /\ data.row_offsets.a = <<Fin(0), Fin(2), Fin(4)>>
    /\ data.column_indices.a = <<Fin(0), Fin(1), Fin(0), Fin(1)>>
    /\ Len(data.objective_coefficients.a) = 2

(***************************************************************************)
(* C4, C5                                                                  *)
(***************************************************************************)
\* the (element, slot) pairs of an array of the document and the sequence its
\* elements were coerced into, for the slots the sequence has
SlotsOf(ptr, array) ==
    IF array.type # "Array" THEN {}
    ELSE {[item |-> Elements(array)[i], slot |-> ptr.a[i]] :
             i \in 1..Min2(Len(ptr.a), Len(Elements(array)))}

\* the pairs of the explicit constraint bounds, once their section has run
ExplicitConstraintSlots ==
    IF /\ PastConstraintBounds
       /\ DocConstraintBounds("lower_bounds") # NULL
       /\ DocConstraintBounds("upper_bounds") # NULL
    THEN SlotsOf(data.constraint_lower_bounds, DocConstraintBounds("lower_bounds"))
           \cup SlotsOf(data.constraint_upper_bounds, DocConstraintBounds("upper_bounds"))
    ELSE {}

\* the pairs of the variable bounds, once their section has run
VariableSlots ==
    IF PastVariableBounds /\ DocField("variable_bounds") # NULL
    THEN SlotsOf(data.variable_lower_bounds, DocVariableBounds("lower_bounds"))
           \cup SlotsOf(data.variable_upper_bounds, DocVariableBounds("upper_bounds"))
    ELSE {}

CoercedSlots == ExplicitConstraintSlots \cup VariableSlots

PlusSentinels == {S_inf, S_infinity}
MinusSentinels == {S_minus_inf, S_minus_infinity, S_ninf}
Lowered(s) == [i \in 1..Len(s) |-> ToLower(s[i])]

\* C4 as claimed: a numeric element is stored unchanged, and a string element is
\* stored as +infinity exactly when it is "inf" or "infinity" and as -infinity
\* exactly when it is "-inf", "-infinity" or "ninf", in all four bound arrays.
C4_ExactlyTheSentinels ==
    \A e \in CoercedSlots :
        /\ cJSON_IsNumber(e.item) => e.slot = e.item.valuedouble
        /\ cJSON_IsString(e.item) =>
              /\ (e.slot = PosInf <=> e.item.valuestring \in PlusSentinels)
              /\ (e.slot = NegInf <=> e.item.valuestring \in MinusSentinels)

\* C4, amended: a numeric element is stored unchanged; "inf" and "infinity" are
\* stored as +infinity and "-inf", "-infinity" and "ninf" as -infinity; and so are
\* the spellings of inf and infinity in other letter cases, with an optional
\* sign, which strtod reads as infinities; in all four bound arrays.
C4_SentinelsCoerced ==
    \A e \in CoercedSlots :
        /\ cJSON_IsNumber(e.item) => e.slot = e.item.valuedouble
        /\ cJSON_IsString(e.item) =>
              LET s == e.item.valuestring IN
              /\ s \in PlusSentinels => e.slot = PosInf
              /\ s \in MinusSentinels => e.slot = NegInf
              /\ Lowered(s) \in PlusSentinels \cup {<<"+">> \o w : w \in PlusSentinels}
                    => e.slot = PosInf
              /\ Lowered(s) \in {S_minus_inf, S_minus_infinity} => e.slot = NegInf

\* "ninf" and "infinity" were coerced in each of the four bound arrays
C4_Witness ==
    /\ ParseSucceeded
    /\ DocConstraintBounds("lower_bounds") = JArray(<<JString(S_ninf)>>)
    /\ DocConstraintBounds("upper_bounds") = JArray(<<JString(S_infinity)>>)
    /\ DocVariableBounds("lower_bounds") = JArray(<<JString(S_infinity)>>)
    /\ DocVariableBounds("upper_bounds") = JArray(<<JString(S_ninf)>>)
    /\ data.constraint_lower_bounds.a = <<NegInf>>
    /\ data.constraint_upper_bounds.a = <<PosInf>>
    /\ data.variable_lower_bounds.a = <<PosInf>>
    /\ data.variable_upper_bounds.a = <<NegInf>>

\* white space, an optional sign and then digits only
DecimalLiteral(s) ==
    LET t == SkipSpace(s)
        u == IF t # <<>> /\ t[1] \in {"-", "+"} THEN Tail(t) ELSE t
    IN u # <<>> /\ \A i \in 1..Len(u) : IsDigit(u[i])

\* after white space and an optional sign, s starts with neither a digit nor
\* inf nor nan in any letter case
NoConvertiblePrefix(s) ==
    LET t == SkipSpace(s)
        u == IF t # <<>> /\ t[1] \in {"-", "+"} THEN Tail(t) ELSE t
    IN u = <<>> \/ (~IsDigit(u[1]) /\ ~HasPrefixNoCase(u, S_inf) /\ ~HasPrefixNoCase(u, S_nan))

\* parse_cuopt_json returns -1 for the file, the CSR object or objective_data only
FailureIsStructural ==
    parse_ret = <<-1>> =>
        \/ env.file # "ok"
        \/ CsrIncomplete
        \/ DocField("objective_data") = NULL

\* C5 as claimed: a string element that is neither a sentinel nor a decimal
\* literal is stored as 0.0, an element that is neither number nor string is
\* stored as 0.0, and no element makes parse_cuopt_json fail.
C5_MalformedIsZero ==
    /\ FailureIsStructural
    /\ \A e \in CoercedSlots :
          /\ (/\ cJSON_IsString(e.item)
              /\ e.item.valuestring \notin PlusSentinels \cup MinusSentinels
              /\ ~DecimalLiteral(e.item.valuestring)) => e.slot = Fin(0)
          /\ (~cJSON_IsNumber(e.item) /\ ~cJSON_IsString(e.item)) => e.slot = Fin(0)

\* C5, amended: a string element that is no sentinel and of which strtod converts
\* no prefix is stored as 0.0, an element that is neither number nor string is
\* stored as 0.0, and no element makes parse_cuopt_json fail.
C5_UnconvertibleIsZero ==
    /\ FailureIsStructural
    /\ \A e \in CoercedSlots :
          /\ (/\ cJSON_IsString(e.item)
              /\ e.item.valuestring \notin PlusSentinels \cup MinusSentinels
              /\ NoConvertiblePrefix(e.item.valuestring)) => e.slot = Fin(0)
          /\ (~cJSON_IsNumber(e.item) /\ ~cJSON_IsString(e.item)) => e.slot = Fin(0)

\* the string "z" and the leaf true were stored as 0.0 and parsing went on to
\* return 0
C5_Witness ==
    /\ ParseSucceeded
    /\ DocConstraintBounds("lower_bounds") = JArray(<<JString(<<"z">>)>>)
    /\ DocConstraintBounds("upper_bounds") = JArray(<<JTrue>>)
    /\ data.constraint_lower_bounds.a = <<Fin(0)>>
    /\ data.constraint_upper_bounds.a = <<Fin(0)>>
    /\ data.variable_lower_bounds.a = <<Fin(0)>>
    /\ data.variable_upper_bounds.a = <<Fin(0)>>

(***************************************************************************)
(* C6                                                                      *)
(***************************************************************************)
\* what coercing the elements of array, index for index, leaves in a sequence of
\* n slots: the slots past the array's length are never assigned
CoercedInto(n, array) ==
    [i \in 1..Max2(n, 0) |->
        IF i <= Len(Elements(array)) THEN parse_numeric_value(Elements(array)[i])
        ELSE Indet]

\* C6: when constraint_bounds has both lower_bounds and upper_bounds, the lower
\* and upper bound of every constraint are the coerced elements of those arrays,
\* index for index, whether or not bounds and types are present as well.
C6_ExplicitTakesPrecedence ==
    (/\ PastConstraintBounds
     /\ DocConstraintBounds("lower_bounds") # NULL
     /\ DocConstraintBounds("upper_bounds") # NULL) =>
        /\ data.constraint_lower_bounds.a =
              CoercedInto(data.num_constraints, DocConstraintBounds("lower_bounds"))
        /\ data.constraint_upper_bounds.a =
              CoercedInto(data.num_constraints, DocConstraintBounds("upper_bounds"))

\* a document with all four keys was resolved from lower_bounds and upper_bounds
C6_Witness ==
    /\ ParseSucceeded
    /\ DocConstraintBounds("bounds") # NULL
    /\ DocConstraintBounds("types") # NULL
    /\ DocConstraintBounds("lower_bounds") = JArray(<<JString(S_minus_inf), JNumber(2)>>)
    /\ DocConstraintBounds("upper_bounds") = JArray(<<JNumber(5), JString(S_inf)>>)
    /\ data.constraint_lower_bounds.a = <<NegInf, Fin(2)>>
    /\ data.constraint_upper_bounds.a = <<Fin(5), PosInf>>

(***************************************************************************)
(* C7, C8                                                                  *)
(***************************************************************************)
\* the constraint bounds were resolved from bounds and types
RelationalInUse ==
    /\ PastConstraintBounds
    /\ DocField("constraint_bounds") # NULL
    /\ ~(DocConstraintBounds("lower_bounds") # NULL /\ DocConstraintBounds("upper_bounds") # NULL)
    /\ DocConstraintBounds("bounds") # NULL
    /\ DocConstraintBounds("types") # NULL

\* the number of (bound, type) pairs the document gives
Paired ==
    Min2(Len(Elements(DocConstraintBounds("bounds"))), Len(Elements(DocConstraintBounds("types"))))

\* C7: in the relational form, for every constraint i that has a bound and a
\* type: "L" gives (-infinity, bound[i]), "G" gives (bound[i], +infinity) and "E"
\* gives (bound[i], bound[i]), bound[i] being the coerced element of bounds.
C7_RelationalCodes ==
    RelationalInUse =>
        \A i \in 1..Min2(Paired, data.num_constraints) :
            LET b == parse_numeric_value(Elements(DocConstraintBounds("bounds"))[i])
                code == Elements(DocConstraintBounds("types"))[i].valuestring
                lo == data.constraint_lower_bounds.a[i]
                hi == data.constraint_upper_bounds.a[i]
            IN  /\ code = S_L => (lo = NegInf /\ hi = b)
                /\ code = S_G => (lo = b /\ hi = PosInf)
                /\ code = S_E => (lo = b /\ hi = b)

\* bounds = [230,190] with types = ["G","L"] was resolved
C7_Witness ==
    /\ RelationalInUse
    /\ ParseSucceeded
    /\ DocConstraintBounds("bounds") = JArray(<<JNumber(230), JNumber(190)>>)
    /\ DocConstraintBounds("types") = JArray(<<JString(S_G), JString(S_L)>>)
    /\ data.constraint_lower_bounds.a = <<Fin(230), NegInf>>
    /\ data.constraint_upper_bounds.a = <<PosInf, Fin(190)>>

\* every given (bound, type) pair has one of the codes "L", "G", "E"
CodesKnown ==
    \A i \in 1..Paired :
        /\ cJSON_IsString(Elements(DocConstraintBounds("types"))[i])
        /\ Elements(DocConstraintBounds("types"))[i].valuestring \in {S_L, S_G, S_E}

\* the document with its (bound, type) pairs written in the explicit form:
\* "G" as lower = b, upper = "inf"; "L" as lower = "-inf", upper = b; "E" as
\* lower = upper = b
ExplicitTwin ==
    LET bs == Elements(DocConstraintBounds("bounds"))
        ts == Elements(DocConstraintBounds("types"))
        lower == [i \in 1..Paired |->
                    IF ts[i].valuestring = S_L THEN JString(S_minus_inf) ELSE bs[i]]
        upper == [i \in 1..Paired |->
                    IF ts[i].valuestring = S_G THEN JString(S_inf) ELSE bs[i]]
    IN  Document(DocField("csr_constraint_matrix"), DocField("objective_data"),
                 DocField("maximize"),
                 ConstraintBounds(JArray(lower), JArray(upper), NULL, NULL),
                 DocField("variable_bounds"), DocField("variable_types"))

\* C8: a document in the relational form with codes "L", "G", "E" is resolved to
\* the constraint lower and upper sequences that the constraint-bounds section
\* writes for the same document in the explicit form, and when the document
\* gives no more pairs than it has constraints the section runs through for the
\* explicit form as it did for the relational one.  (With more pairs than
\* constraints the relational loop stops at num_constraints, and the explicit
\* loops store the further elements past the end of the blocks.)
C8_RelationalEqualsExplicit ==
    (RelationalInUse /\ CodesKnown) =>
        LET twin == ParseConstraintBoundsSection(ExplicitTwin, data)
        IN  /\ twin.data.constraint_lower_bounds = data.constraint_lower_bounds
            /\ twin.data.constraint_upper_bounds = data.constraint_upper_bounds
            /\ twin.ret = "ok"
            /\ Paired <= data.num_constraints => twin.fault = "none"

\* a document with the codes "E", "L" in this order was resolved, and so was its
\* explicit twin
C8_Witness ==
    /\ RelationalInUse
    /\ CodesKnown
    /\ ParseSucceeded
    /\ DocConstraintBounds("types") = JArray(<<JString(S_E), JString(S_L)>>)
    /\ Paired = 2
    /\ data.num_constraints = 2
    /\ ParseConstraintBoundsSection(ExplicitTwin, data).data.constraint_lower_bounds.a
          = <<Fin(230), NegInf>>
    /\ data.constraint_lower_bounds.a = <<Fin(230), NegInf>>
    /\ data.constraint_upper_bounds.a = <<Fin(230), Fin(190)>>

(***************************************************************************)
(* C9, C10                                                                 *)
(***************************************************************************)
\* the slots of two parallel sequences that both hold a number are ordered
Ordered(lower, upper) ==
    \A i \in 1..Min2(Len(lower.a), Len(upper.a)) :
        (lower.a[i].k \in {"fin", "inf"} /\ upper.a[i].k \in {"fin", "inf"})
            => FloatLe(lower.a[i], upper.a[i])

\* C9: after a successful parse the lower bound is at most the upper bound at
\* every index of the constraint bounds and of the variable bounds (stated here
\* of the slots that hold numbers).
C9_LowerAtMostUpper ==
    ParseSucceeded =>
        /\ Ordered(data.constraint_lower_bounds, data.constraint_upper_bounds)
        /\ Ordered(data.variable_lower_bounds, data.variable_upper_bounds)

\* C10: when the document has no variable_bounds, or has it with neither
\* lower_bounds nor upper_bounds, the descriptor passed to the solver has lower
\* bound 0 and upper bound +infinity for every variable.
C10_DefaultVariableBounds ==
    (/\ handed # <<>>
     /\ \/ DocField("variable_bounds") = NULL
        \/ (DocVariableBounds("lower_bounds") = NULL /\ DocVariableBounds("upper_bounds") = NULL)) =>
        LET d == handed[1]
        IN  /\ Len(d.variable_lower_bounds.a) = d.num_variables
            /\ Len(d.variable_upper_bounds.a) = d.num_variables
            /\ \A i \in 1..d.num_variables :
                  /\ d.variable_lower_bounds.a[i] = Fin(0)
                  /\ d.variable_upper_bounds.a[i] = PosInf

(***************************************************************************)
(* C11                                                                     *)
(***************************************************************************)
\* the descriptor holds what the variable-types section wrote
PastVariableTypes == pc = "finish" \/ ParseSucceeded

\* C11: no element of variable_types makes the type resolver fail, and after a
\* successful parse each of the num_variables slots of variable_types is INTEGER
\* or CONTINUOUS: INTEGER exactly for an element that is the string "I" when the
\* array is present, and CONTINUOUS in every slot when it is absent.
C11_VariableTypesResolved ==
    /\ (HasDocument /\ pc = "variable_types") =>
           ParseVariableTypesSection(env.doc, data).fault # "segv"
    /\ ParseSucceeded =>
           /\ Len(data.variable_types.a) = data.num_variables
           /\ \A i \in 1..Len(data.variable_types.a) :
                  LET slot == data.variable_types.a[i]
                      vt == DocField("variable_types")
                  IN  /\ slot \in {CUOPT_INTEGER, CUOPT_CONTINUOUS}
                      /\ vt = NULL => slot = CUOPT_CONTINUOUS
                      /\ (vt # NULL /\ i <= Len(Elements(vt))) =>
                             (slot = CUOPT_INTEGER <=> Elements(vt)[i] = JString(S_I))

(***************************************************************************)
(* C12                                                                     *)
(***************************************************************************)
\* C12: after a successful parse objective_sense is CUOPT_MAXIMIZE exactly when
\* the document has a top-level maximize that is the boolean true, and
\* CUOPT_MINIMIZE otherwise; objective_offset is the number of
\* objective_data.offset when the document has it, and 0.0 when it has not.
C12_SenseAndOffset ==
    ParseSucceeded =>
        /\ data.objective_sense =
              IF DocField("maximize") = JTrue THEN "CUOPT_MAXIMIZE" ELSE "CUOPT_MINIMIZE"
        /\ DocObjective("offset") = NULL => data.objective_offset = Fin(0)
        /\ DocObjective("offset") # NULL =>
              data.objective_offset = DocObjective("offset").valuedouble

\* a document with maximize = true and offset = 7 was parsed
C12_Witness ==
    /\ ParseSucceeded
    /\ DocField("maximize") = JTrue
    /\ DocObjective("offset") = JNumber(7)
    /\ data.objective_sense = "CUOPT_MAXIMIZE"
    /\ data.objective_offset = Fin(7)

(***************************************************************************)
(* C13                                                                     *)
(***************************************************************************)
\* parse_cuopt_json returned -1
IngestionFailed == parse_ret = <<-1>>

\* C13: when parse_cuopt_json fails, solve_problem is never entered and the
\* descriptor is never passed to the solver; and once main has returned, every
\* block allocated for the descriptor has been freed, once, and the descriptor
\* holds no pointer.
C13_FailureReleasesAll ==
    IngestionFailed =>
        /\ ~InSolveProblem
        /\ handed = <<>>
        /\ pc \in {"parsed", "exit"}
        /\ pc = "exit" =>
              /\ \A f \in PointerFields : heap[f] \in {"none", "freed"}
              /\ data = ZeroProblemData

\* a document without objective_data was rejected after the three CSR blocks were
\* allocated, and main has freed them
C13_Witness ==
    /\ IngestionFailed
    /\ pc = "exit"
    /\ exit_code = <<1>>
    /\ ~CsrIncomplete
    /\ DocField("objective_data") = NULL
    /\ \A f \in PointerFields :
          heap[f] = IF f \in {"row_offsets", "column_indices", "matrix_values"}
                    THEN "freed" ELSE "none"

(***************************************************************************)
(* C14                                                                     *)
(***************************************************************************)
\* C14: the descriptor solve_problem passes to the solver has a block behind each
\* of its nine pointers, and the parser has assigned every slot of each block.
C14_FullyPopulated ==
    handed # <<>> =>
        \A f \in PointerFields :
            /\ handed[1][f].p = "live"
            /\ \A i \in 1..Len(handed[1][f].a) : handed[1][f].a[i] # Indet

(***************************************************************************)
(* C15                                                                     *)
(***************************************************************************)
\* the call was made and returned CUOPT_SUCCESS
Succeeded(name) == \E i \in 1..Len(calls) : calls[i] = Call(name, "CUOPT_SUCCESS")
\* the call was made and returned an error
Failed(name) == \E i \in 1..Len(calls) : calls[i] = Call(name, "CUOPT_ERROR")

\* the calls after whose failure solve_problem goes to CLEANUP
RequiredCalls ==
    {"cuOptCreateRangedProblem", "cuOptCreateSolverSettings", "cuOptSolve"}
      \cup {RequiredQueries[i] : i \in 1..Len(RequiredQueries)}

\* the file was parsed, and the problem was created and solved and its results
\* were retrieved
SolvedSuccessfully ==
    /\ parse_ret = <<0>>
    /\ \A name \in RequiredCalls : Succeeded(name)

\* C15: main returns 0 exactly when the file was parsed and every required step
\* of solve_problem succeeded, and 1 otherwise; the failure of the primal
\* solution, MIP gap or solution bound query does not change that.  (A failure
\* of cuOptIsMIP, which is neither a required step nor one of these three
\* queries, is counted here with the failures that may give 1.)
C15_ExitCode ==
    pc = "exit" =>
        /\ exit_code \in {<<0>>, <<1>>}
        /\ exit_code = <<0>> <=> (SolvedSuccessfully /\ ~Failed("cuOptIsMIP"))

(***************************************************************************)
(* C16                                                                     *)
(***************************************************************************)
\* the file was parsed and a required step of solve_problem failed
SolverSideFailed ==
    /\ parse_ret = <<0>>
    /\ \E name \in RequiredCalls : Failed(name)

\* C16: the status main returns when ingestion fails is not 0, and main returns
\* another status when problem creation, settings creation, the solve or the
\* retrieval of the results fails.
C16_DistinctExitStatus ==
    pc = "exit" =>
        /\ IngestionFailed =>
              (exit_code = <<IngestionExitStatus>> /\ exit_code # <<0>>)
        /\ SolverSideFailed => exit_code # <<IngestionExitStatus>>

(***************************************************************************)
(* C17                                                                     *)
(***************************************************************************)
\* C17: in the descriptor passed to the solver every column index is at least 0
\* and less than num_variables.
C17_ColumnIndicesInRange ==
    handed # <<>> =>
        \A i \in 1..Len(handed[1].column_indices.a) :
            LET index == handed[1].column_indices.a[i]
            IN  /\ index.k = "fin"
                /\ 0 <= index.v
                /\ index.v < handed[1].num_variables

(***************************************************************************)
(* C18, C19                                                                *)
(***************************************************************************)
\* the document has the array and its length is not n
LengthIsNot(array, n) == array # NULL /\ Len(Elements(array)) # n

\* a constraint bound array has not one element for each constraint, or a
\* variable bound array or variable_types has not one element for each variable
DimensionMismatch ==
    LET nc == Len(Elements(DocCsr("offsets"))) - 1
        nv == Len(Elements(DocObjective("coefficients")))
    IN  \/ \E key \in {"lower_bounds", "upper_bounds", "bounds", "types"} :
              LengthIsNot(DocConstraintBounds(key), nc)
        \/ \E key \in {"lower_bounds", "upper_bounds"} :
              LengthIsNot(DocVariableBounds(key), nv)
        \/ LengthIsNot(DocField("variable_types"), nv)

\* C18: parse_cuopt_json does not return 0 for a document in which a constraint
\* bound array has not exactly num_constraints elements, or a variable bound
\* array or variable_types has not exactly num_variables elements.
C18_MismatchFails ==
    (/\ HasDocument
     /\ ~CsrIncomplete
     /\ DocObjective("coefficients") # NULL
     /\ DimensionMismatch) => parse_ret # <<0>>

\* C19: parse_cuopt_json does not return 0 for a document in the relational form
\* in which the type code of a constraint it goes through is not "L", "G" or "E".
C19_UnknownCodeFails ==
    (/\ RelationalInUse
     /\ \E i \in 1..Min2(Paired, data.num_constraints) :
           Elements(DocConstraintBounds("types"))[i] \notin
               {JString(S_L), JString(S_G), JString(S_E)}) => parse_ret # <<0>>

(***************************************************************************)
(* C20                                                                     *)
(***************************************************************************)
\* C20: after a successful parse of a document that has csr_constraint_matrix
\* with its three arrays and objective_data with coefficients, empty or not,
\* num_constraints, num_variables and nnz are not negative.
C20_CountsNotNegative ==
    (/\ ParseSucceeded
     /\ ~CsrIncomplete
     /\ DocObjective("coefficients") # NULL) =>
        /\ data.num_constraints >= 0
        /\ data.num_variables >= 0
        /\ data.nnz >= 0

(***************************************************************************)
(* C21                                                                     *)
(***************************************************************************)
\* parse_cuopt_json is in a section, all of which read the tree
ReadsTree ==
    pc \in {"csr", "objective", "constraint_bounds", "variable_bounds", "variable_types"}

\* every slot of the descriptor's sequences holds a number or a type code of its
\* own, not an item of the tree
HoldsCopies(d) ==
    \A f \in PointerFields : \A i \in 1..Len(d[f].a) : DOMAIN d[f].a[i] = {"k", "v"}

\* C21: the tree is read only while it is live; once parse_cuopt_json has returned
\* the tree, if one was built, has been deleted, and never twice; the descriptor
\* holds copies, and what is passed to the solver after the tree is deleted is
\* the descriptor the parser left.
C21_TreeReleasedOnce ==
    /\ ReadsTree => json = "live"
    /\ pc = "finish" => json = "live"
    /\ json # "deleted twice"
    /\ parse_ret # <<>> => json = (IF env.file = "ok" THEN "deleted" ELSE "none")
    /\ HoldsCopies(data)
    /\ handed # <<>> => (json = "deleted" /\ HoldsCopies(handed[1]))
    /\ (handed # <<>> /\ InSolveProblem) => handed[1] = data

\* a document was parsed, its tree deleted, and the descriptor passed to the
\* solver still holds the document's coefficient
C21_Witness ==
    /\ parse_ret = <<0>>
    /\ json = "deleted"
    /\ handed # <<>>
    /\ pc = "create_settings"
    /\ DocObjective("coefficients") = JArray(<<JNumber(-1)>>)
    /\ handed[1].objective_coefficients.a = <<Fin(-1)>>

(***************************************************************************)
(* C22                                                                     *)
(***************************************************************************)
\* C22: in the relational form the loop goes through the first n constraints, n
\* the least of the length of bounds, the length of types and num_constraints:
\* slot i <= n holds what the code types[i] makes of bounds[i], no slot past n is
\* assigned, nothing is stored past the end of the blocks, and parse_cuopt_json
\* does not fail, whether or not the lengths agree.
C22_LockstepMinimum ==
    /\ (/\ HasDocument
        /\ pc = "constraint_bounds"
        /\ BoundsForm(DocConstraintBounds("lower_bounds"), DocConstraintBounds("upper_bounds"),
                      DocConstraintBounds("bounds"), DocConstraintBounds("types")) = "relational") =>
           /\ ParseConstraintBoundsSection(env.doc, data).ret = "ok"
           /\ ParseConstraintBoundsSection(env.doc, data).fault # "overrun"
    /\ RelationalInUse =>
           LET n == Min2(Paired, data.num_constraints)
               bs == Elements(DocConstraintBounds("bounds"))
               ts == Elements(DocConstraintBounds("types"))
               unassigned == [lo |-> Indet, hi |-> Indet]
           IN  /\ parse_ret # <<-1>>
               /\ \A i \in 1..Len(data.constraint_lower_bounds.a) :
                     [lo |-> data.constraint_lower_bounds.a[i],
                      hi |-> data.constraint_upper_bounds.a[i]]
                       = IF i <= n THEN RelationalPair(bs[i], ts[i], unassigned)
                         ELSE unassigned

\* a document of two constraints with one bound and two types was parsed: the
\* first constraint was resolved and the second left unassigned
C22_Witness ==
    /\ RelationalInUse
    /\ ParseSucceeded
    /\ data.num_constraints = 2
    /\ DocConstraintBounds("bounds") = JArray(<<JNumber(230)>>)
    /\ DocConstraintBounds("types") = JArray(<<JString(S_G), JString(S_L)>>)
    /\ data.constraint_lower_bounds.a = <<Fin(230), Indet>>
    /\ data.constraint_upper_bounds.a = <<PosInf, Indet>>

(***************************************************************************)
(* C23, C24                                                                *)
(***************************************************************************)
\* C23: when values and indices differ in length the CSR section reports no
\* error and stores nothing at an index >= nnz; matrix_values has nnz slots, the
\* first of which hold the values in document order, as many as there are.
C23_ValuesLengthIgnored ==
    (/\ HasDocument
     /\ ~CsrIncomplete
     /\ Len(Elements(DocCsr("values"))) # Len(Elements(DocCsr("indices")))) =>
        /\ pc = "csr" =>
              /\ ParseCsrSection(env.doc, data).ret = "ok"
              /\ ParseCsrSection(env.doc, data).fault = "none"
        /\ pc = "objective" =>
              /\ Len(data.matrix_values.a) = Len(Elements(DocCsr("indices")))
              /\ \A i \in 1..Len(data.matrix_values.a) :
                    data.matrix_values.a[i] =
                        IF i <= Len(Elements(DocCsr("values")))
                        THEN Elements(DocCsr("values"))[i].valuedouble
                        ELSE Indet

\* C24: no store of the constraint-bounds section lands past the
\* num_constraints slots of constraint_lower_bounds and constraint_upper_bounds,
\* and no store of the variable-bounds and variable-types sections lands past
\* the num_variables slots of their blocks, however long the document's arrays.
C24_WritesInsideBlocks ==
    HasDocument =>
        /\ pc = "constraint_bounds" =>
              ParseConstraintBoundsSection(env.doc, data).fault # "overrun"
        /\ pc = "variable_bounds" =>
              ParseVariableBoundsSection(env.doc, data).fault # "overrun"
        /\ pc = "variable_types" =>
              ParseVariableTypesSection(env.doc, data).fault # "overrun"

(***************************************************************************)
(* C25                                                                     *)
(***************************************************************************)
\* the cuOpt calls of solve_problem in the order of the program text
CallOrder ==
    <<"cuOptCreateRangedProblem", "cuOptCreateSolverSettings",
      "cuOptSetFloatParameter tolerance", "cuOptSetFloatParameter time limit",
      "cuOptSetParameter user problem file", "cuOptSolve",
      "cuOptGetSolveTime", "cuOptGetTerminationStatus", "cuOptGetObjectiveValue",
      "cuOptGetPrimalSolution", "cuOptIsMIP", "cuOptGetMIPGap", "cuOptGetSolutionBound">>

\* the place of each call in that order
OrderOf ==
    [name \in {CallOrder[k] : k \in 1..Len(CallOrder)} |->
        CHOOSE k \in 1..Len(CallOrder) : CallOrder[k] = name]

\* the places in that order of the required calls
RequiredPlaces == {OrderOf[name] : name \in RequiredCalls}

\* the calls that only set a parameter
ParameterCalls ==
    {"cuOptSetFloatParameter tolerance", "cuOptSetFloatParameter time limit",
     "cuOptSetParameter user problem file"}

\* C25: the calls solve_problem makes follow the fixed order create problem,
\* create settings, parameters, solve, result queries; a call is made only when
\* every required call before it in that order was made and succeeded (so no
\* solve after a failed creation and no query after a failed solve); and once the
\* parameters have been set, whether or not setting one failed, the solve is the
\* next call.
C25_CallOrder ==
    /\ \A i \in 1..Len(calls) : calls[i].call \in DOMAIN OrderOf
    /\ \A i \in 1..(Len(calls) - 1) : OrderOf[calls[i].call] < OrderOf[calls[i + 1].call]
    /\ \A i \in 1..Len(calls) : \A k \in RequiredPlaces :
          k < OrderOf[calls[i].call] => Succeeded(CallOrder[k])
    /\ (\E name \in ParameterCalls : Failed(name) \/ Succeeded(name)) =>
          (pc = "solve" \/ Failed("cuOptSolve") \/ Succeeded("cuOptSolve"))

\* setting the tolerance and the MPS output file failed, and the problem was
\* solved and its objective value retrieved all the same
C25_Witness ==
    /\ Failed("cuOptSetFloatParameter tolerance")
    /\ Failed("cuOptSetParameter user problem file")
    /\ Succeeded("cuOptSolve")
    /\ Succeeded("cuOptGetObjectiveValue")
    /\ pc = "extract"

(***************************************************************************)
(* C26: the solver handles.                                                *)
(***************************************************************************)
HandleOf == [h \in Handles |->
                IF h = "problem" THEN problem
                ELSE IF h = "settings" THEN settings ELSE solution]

\* the call that creates each handle
CreatorOf == [h \in Handles |->
                 IF h = "problem" THEN "cuOptCreateRangedProblem"
                 ELSE IF h = "settings" THEN "cuOptCreateSolverSettings"
                 ELSE "cuOptSolve"]

\* solve_problem has returned
AfterSolveProblem == pc \in {"solved", "exit"} /\ handed # <<>>

\* C26: whatever step of solve_problem fails or succeeds, each of the problem,
\* settings and solution handles meets its destroy call exactly once, in the
\* cleanup block after its last use: until then no handle is destroyed and the
\* handles a step uses are live, afterwards every handle that was created is
\* destroyed (once, never twice) and none is left live.
C26_HandlesDestroyedOnce ==
    /\ \A h \in Handles :
          /\ HandleOf[h] # "destroyed twice"
          /\ destroys[h] <= 1
          /\ AfterSolveProblem =>
                /\ destroys[h] = 1
                /\ HandleOf[h] # "live"
                /\ Succeeded(CreatorOf[h]) <=> HandleOf[h] = "destroyed"
          /\ ~AfterSolveProblem =>
                /\ destroys[h] = 0
                /\ HandleOf[h] # "destroyed"
    /\ pc \in {"create_settings", "set_parameters", "solve", "get_results", "extract"} =>
          problem = "live"
    /\ pc \in {"set_parameters", "solve", "get_results", "extract"} => settings = "live"
    /\ pc \in {"get_results", "extract"} => solution = "live"

\* cuOptSolve failed: the problem and the settings are destroyed, no solution was made
C26_Witness ==
    /\ pc = "solved"
    /\ Failed("cuOptSolve")
    /\ problem = "destroyed"
    /\ settings = "destroyed"
    /\ solution = "NULL"
    /\ \A h \in Handles : destroys[h] = 1

(***************************************************************************)
(* C27: the blocks of the descriptor.                                      *)
(***************************************************************************)
\* C27: on both paths on which main returns after parsing (parse failure and
\* after solve_problem) every block allocated for the descriptor has been
\* freed, exactly once; no block is ever freed twice; a block is freed only by
\* main's last step, so nothing reads it afterwards, and the descriptor never
\* holds a pointer to a freed block.  free_problem_data leaves the descriptor
\* all-zero, so a second call on it, or a call on a descriptor that was only
\* zeroed, frees nothing and leaves it all-zero.
C27_SequencesFreedOnce ==
    LET MainReturned == pc = "exit" /\ parse_ret # <<>> IN
    /\ \A f \in PointerFields :
          /\ heap[f] # "freed twice"
          /\ data[f].p = "live" => heap[f] = "live"
          /\ heap[f] = "freed" => pc = "exit"
          /\ MainReturned => heap[f] \in {"none", "freed"}
    /\ MainReturned => data = ZeroProblemData
    /\ free_problem_data(free_problem_data(data)) = ZeroProblemData
    /\ HeapAfterFree(HeapAfterFree(heap, data), free_problem_data(data))
          = HeapAfterFree(heap, data)
    /\ free_problem_data(ZeroProblemData) = ZeroProblemData
    /\ HeapAfterFree(heap, ZeroProblemData) = heap

\* main returned after solve_problem and all nine blocks have been freed
C27_Witness ==
    /\ pc = "exit"
    /\ parse_ret = <<0>>
    /\ handed # <<>>
    /\ data = ZeroProblemData
    /\ \A f \in PointerFields : heap[f] = "freed"

====
